---- MODULE Spec2Model ----
(***************************************************************************)
(* Model of the escrow example program (examples/escrow) and of the        *)
(* PDA-keyed record store it is built on (pda_pinocchio_mapping).          *)
(*                                                                         *)
(* The ledger is a map from account address to an account                  *)
(* [lamports, owner, space, data].  One action models one whole            *)
(* instruction: the handler runs on a working copy of the ledger, and the  *)
(* runtime installs the copy only when the handler returns Ok; an Err or   *)
(* a panic discards it.  "prev" keeps the ledger the last instruction      *)
(* started from and "last" its inputs, outcome and the ordered list of     *)
(* host effects the handler performed (also those later discarded).        *)
(*                                                                         *)
(* Value units are scaled (TLC integers are 32 bit): one unit stands for   *)
(* a block of lamports; byte widths and record sizes are the program's.    *)
(* Account data is a sequence of cells: a 32-byte public key is one cell   *)
(* holding the address, every other byte is a cell of its own.  Bytes of   *)
(* an account beyond the typed view written into it stay zero and are      *)
(* represented by "space" alone.                                           *)
(*                                                                         *)
(* Spec is the escrow program behind its entry point.  SpecStore is the    *)
(* record store called directly (create, update, set and                   *)
(* Share::mapping_create), with values of two sizes and with account data  *)
(* at aligned and misaligned addresses.                                    *)
(***************************************************************************)
EXTENDS Integers, Sequences, FiniteSets, TLC

VARIABLES ledger, prev, last, count

vars == <<ledger, prev, last, count>>

----------------------------------------------------------------------------
(* Bounds of the model *)

\* Seed bumps range over 0..MaxBump (a u8 in the program).
MaxBump == 1

\* Instruction amounts range over 0..MaxAmount (a u64 in the program).
MaxAmount == 1

\* Balance every user starts with.
InitialBalance == 3

\* Number of instructions submitted in one behaviour.
MaxInstructions == 3

\* Opcode bytes range over 0..MaxOpcode (a u8 in the program).
MaxOpcode == 3

----------------------------------------------------------------------------
(* Identities *)

\* Ordinary signing identities (the maker and taker key pairs of the tests).
\* The first account of every instruction is one of them and has signed the
\* transaction, as the host calls made on its behalf require.
Users == {1, 2}

\* The owner of every account that no program has been assigned to.
SYSTEM_PROGRAM == "system"

\* crate::ID, the escrow program.
ID == "escrow_program"

\* Address of the system program account passed in the account lists.
SystemProgramAccount == 0

Bumps == 0 .. MaxBump

Amounts == 0 .. MaxAmount

Opcodes == 0 .. MaxOpcode

----------------------------------------------------------------------------
(* Sizes *)

\* core::mem::size_of::<Escrow>(): 32 + 8 + 8 + 1.
SizeOfEscrow == 49

\* Escrow::LEN as the source computes it: 32 + 32 + 32 + 8 + 8 + 1.
EscrowLEN == 113

\* Share::LEN = core::mem::size_of::<Share>(): 32 + 32 + 8 + 1.
ShareLEN == 73

\* core::mem::align_of::<Escrow>(): every field is a byte array.
AlignOfEscrow == 1

\* core::mem::align_of::<Mapping>(): a struct of references (what
\* align_of::<Self>() is inside impl Mapping).
AlignOfMapping == 8

\* core::mem::align_of::<Share>(): every field is a byte array (what
\* align_of::<Self>() is inside impl Share).
AlignOfShare == 1

\* LEN of a second record type kept through the generic store (every Pod
\* type is Sizeable): a Share with a second 8-byte amount.
WideLEN == ShareLEN + 8

\* core::mem::align_of of a third record type, aligned more strictly than
\* Mapping (a Pod struct declared #[repr(C, align(16))]), and its LEN: two
\* keys, a 16-byte amount, a bump and 15 bytes that fill its last 16.
AlignOfQuad == 2 * AlignOfMapping

QuadLEN == ShareLEN + 23

----------------------------------------------------------------------------
(* Byte encodings *)

RECURSIVE ToLeBytes(_, _)
\* u64::to_le_bytes, generalised to k bytes: least significant byte first.
ToLeBytes(n, k) ==
    IF k = 0 THEN <<>> ELSE <<n % 256>> \o ToLeBytes(n \div 256, k - 1)

RECURSIVE FromLeBytes(_)
\* u64::from_le_bytes / the unaligned *(ptr as *const u64) read.
FromLeBytes(bytes) ==
    IF bytes = <<>> THEN 0
    ELSE Head(bytes) + 256 * FromLeBytes(Tail(bytes))

\* The instruction payload after the opcode byte: [bump][amount][amount].
EncodePayload(bump, amount_to_receive, amount_to_give) ==
    <<bump>> \o ToLeBytes(amount_to_receive, 8) \o ToLeBytes(amount_to_give, 8)

----------------------------------------------------------------------------
(* Address derivation *)

NamespaceIndex(name) == IF name = "escrow" THEN 0 ELSE 1

\* derive_address(&[name, key, &[bump]], None, &crate::ID): a hash, modelled
\* as an injective numbering of (name, key, bump) that never yields a user
\* identity nor its own key.  Every bump of the model is one whose address
\* the host accepts as a program-derived signer.
Derive(name, key, bump) ==
    Cardinality(Users) + 1
        + ((key - 1) * (MaxBump + 1) + bump) * 2 + NamespaceIndex(name)

EscrowAddresses == {Derive("escrow", u, b) : u \in Users, b \in Bumps}

\* The accounts a Take may name as its maker: the users and, as an example
\* of a non-user account, user 1's escrow account of bump 0.
MakerAccounts == Users \cup {Derive("escrow", 1, 0)}

ShareAddresses == {Derive("shares", k, b) : k \in MakerAccounts, b \in Bumps}

Addresses == Users \cup EscrowAddresses \cup ShareAddresses

----------------------------------------------------------------------------
(* Accounts and the host runtime *)

\* An account nobody has created: no value, no data, owned by the system
\* program.
EmptyAccount == [lamports |-> 0, owner |-> SYSTEM_PROGRAM, space |-> 0, data |-> <<>>]

\* Rent::get()?.minimum_balance(space), in the scaled value unit: grows with
\* the account's size plus the fixed per-account overhead of 128 bytes.
MinimumBalance(space) == (space + 128) \div 100

\* The working state of one instruction: the ledger copy it mutates, the
\* host effects performed so far, "Ok" or the error that stopped it, and
\* the address at which the host has placed the data of the account the
\* instruction views: a multiple of 8 under the program loader.
Start(l) == [ledger |-> l, events |-> <<>>, err |-> "Ok", ptr |-> 8]

\* The same for a caller of the record store that hands it an account whose
\* data starts at address ptr.
StartAt(l, ptr) == [Start(l) EXCEPT !.ptr = ptr]

Fail(ctx, e) == [ctx EXCEPT !.err = e]

Event(kind, acct) == [kind |-> kind, acct |-> acct]

\* The system program's rule for CreateAccount: the target must hold no
\* value, no data and be unassigned (AccountAlreadyInUse).
CreateAccountTargetUsable(acct) ==
    /\ acct.lamports = 0
    /\ acct.space = 0
    /\ acct.owner = SYSTEM_PROGRAM

\* CreateAccount { from, to, lamports, space, owner }.invoke_signed(seeds):
\* allocates zeroed storage, assigns the owner and funds the target from
\* "from"; fails when the target is in use or "from" cannot pay.
CreateAccount(ctx, from, to, lamports, space, owner) ==
    IF ~CreateAccountTargetUsable(ctx.ledger[to])
    THEN Fail(ctx, "AccountAlreadyInUse")
    ELSE IF ctx.ledger[from].lamports < lamports
    THEN Fail(ctx, "InsufficientFunds")
    ELSE [ctx EXCEPT
            !.ledger = [ctx.ledger EXCEPT
                ![from].lamports = @ - lamports,
                ![to] = [lamports |-> lamports, owner |-> owner,
                         space |-> space, data |-> <<>>]],
            !.events = Append(@, Event("CreateAccount", to))]

\* Mutant: the amount is debited and never credited.
TransferDebitOnly(ctx, from, to, lamports) ==
    IF ctx.ledger[from].lamports < lamports
    THEN [ctx EXCEPT !.err = "InsufficientFunds"]
    ELSE [ctx EXCEPT
            !.ledger = [@ EXCEPT ![from].lamports = @ - lamports],
            !.events = Append(@, [kind |-> "Transfer", acct |-> to])]

\* Transfer { from, to, lamports }.invoke(): moves value, fails when "from"
\* holds less than the amount.  A transfer to oneself changes nothing.
Transfer(ctx, from, to, lamports) ==
    IF ctx.ledger[from].lamports < lamports
    THEN Fail(ctx, "InsufficientFunds")
    ELSE [ctx EXCEPT
            !.ledger = IF from = to THEN @
                       ELSE [@ EXCEPT ![from].lamports = @ - lamports,
                                      ![to].lamports = @ + lamports],
            !.events = Append(@, Event("Transfer", to))]

\* (data.as_ptr() as usize) % align == 0.
DataAligned(ctx, align) == ctx.ptr % align = 0

\* *t_ref = value / the field setters: the typed view is written over the
\* start of the account's data.
WriteData(ctx, acct, cells) ==
    [ctx EXCEPT !.ledger = [@ EXCEPT ![acct].data = cells],
                !.events = Append(@, Event("Write", acct))]

----------------------------------------------------------------------------
(* Records *)

\* Mutant: the two amounts stored in each other's field.
EscrowCellsSwapped(maker, amount_to_receive, amount_to_give, bump) ==
    <<maker>> \o ToLeBytes(amount_to_give, 8)
              \o ToLeBytes(amount_to_receive, 8) \o <<bump>>

\* The Escrow view written by the setters of state/escrow.rs: maker,
\* amount_to_receive and amount_to_give as little-endian bytes, bump.
EscrowCells(maker, amount_to_receive, amount_to_give, bump) ==
    <<maker>> \o ToLeBytes(amount_to_receive, 8)
              \o ToLeBytes(amount_to_give, 8) \o <<bump>>

\* A Share value as the record store sees it: its bump (Bumpy), its size
\* (Sizeable::LEN), its alignment and its bytes (Pod): maker, taker,
\* amount, bump.
ShareValue(maker, taker, amount_bytes, bump) ==
    [bump  |-> bump,
     len   |-> ShareLEN,
     align |-> AlignOfShare,
     cells |-> <<maker, taker>> \o amount_bytes \o <<bump>>]

\* A value of the second record type: maker, taker, two amounts, bump.
WideValue(maker, taker, amount_bytes, bump) ==
    [bump  |-> bump,
     len   |-> WideLEN,
     align |-> AlignOfShare,
     cells |-> <<maker, taker>> \o amount_bytes \o amount_bytes \o <<bump>>]

\* A value of the third record type: maker, taker, a 16-byte amount, bump.
QuadValue(maker, taker, amount_bytes, bump) ==
    [bump  |-> bump,
     len   |-> QuadLEN,
     align |-> AlignOfQuad,
     cells |-> <<maker, taker>> \o amount_bytes \o amount_bytes \o <<bump>>]

\* Typed reads of stored records.
EscrowMaker(data) == data[1]
EscrowAmountToReceive(data) == FromLeBytes(SubSeq(data, 2, 9))
EscrowAmountToGive(data) == FromLeBytes(SubSeq(data, 10, 17))
EscrowBump(data) == data[18]

ShareMaker(data) == data[1]
ShareTaker(data) == data[2]
ShareAmount(data) == FromLeBytes(SubSeq(data, 3, 10))
ShareBump(data) == data[11]

----------------------------------------------------------------------------
(* The record store: Mapping *)

\* Mutant: the value is written without the length of the data being
\* compared with the value's.
CheckedWriteAnyLength(ctx, value, account) ==
    IF ~DataAligned(ctx, AlignOfMapping)
    THEN Fail(ctx, "InvalidAccountData")
    ELSE WriteData(ctx, account, value.cells)

\* Mutant: the checks are made and the value is not written.
CheckedWriteUnwritten(ctx, value, account) ==
    IF ctx.ledger[account].space # value.len
    THEN Fail(ctx, "InvalidAccountData")
    ELSE IF ~DataAligned(ctx, AlignOfMapping)
    THEN Fail(ctx, "InvalidAccountData")
    ELSE ctx

\* The tail shared by set, update and create once the account is owned by
\* the program: length check, alignment check against align_of::<Self>(),
\* bytemuck::from_bytes_mut, which panics when the data is not aligned for
\* T, then *t_ref = value.
CheckedWrite(ctx, value, account) ==
    IF ctx.ledger[account].space # value.len
    THEN Fail(ctx, "InvalidAccountData")
    ELSE IF ~DataAligned(ctx, AlignOfMapping)
    THEN Fail(ctx, "InvalidAccountData")
    ELSE IF ~DataAligned(ctx, value.align)
    THEN Fail(ctx, "Panic")
    ELSE WriteData(ctx, account, value.cells)

\* Mutant: the supplied account is never compared with the derived address.
MappingAddressUnchecked(name, key, value, account) == TRUE

\* assert_eq!(account_pda, *account.key(), "Mapping: Accounts Mismatching").
MappingAddressOk(name, key, value, account) ==
    Derive(name, key, value.bump) = account

\* Mutant: set allocates the account without looking at its owner.
MappingSetAlwaysCreate(ctx, name, payer, key, value, account) ==
    IF ~MappingAddressOk(name, key, value, account)
    THEN Fail(ctx, "AddressMismatch")
    ELSE LET created == CreateAccount(ctx, payer, account,
                            MinimumBalance(value.len), value.len, ID)
         IN  IF created.err # "Ok" THEN created
             ELSE CheckedWrite(created, value, account)

\* Mutant: an account that already holds a record is left as it is.
MappingSetKeepExisting(ctx, name, payer, key, value, account) ==
    IF ~MappingAddressOk(name, key, value, account)
    THEN Fail(ctx, "AddressMismatch")
    ELSE IF ctx.ledger[account].owner # ID
    THEN LET created == CreateAccount(ctx, payer, account,
                            MinimumBalance(value.len), value.len, ID)
         IN  IF created.err # "Ok" THEN created
             ELSE CheckedWrite(created, value, account)
    ELSE ctx

\* Mapping::set(self, key, value, account) of a Mapping { program_id: ID,
\* name, payer }.
MappingSet(ctx, name, payer, key, value, account) ==
    IF ~MappingAddressOk(name, key, value, account)
    THEN Fail(ctx, "AddressMismatch")
    ELSE IF ctx.ledger[account].owner # ID
    THEN LET created == CreateAccount(ctx, payer, account,
                            MinimumBalance(value.len), value.len, ID)
         IN  IF created.err # "Ok" THEN created
             ELSE CheckedWrite(created, value, account)
    ELSE CheckedWrite(ctx, value, account)

\* Mutant: update as an upsert, allocating the account it does not find.
MappingUpdateUpsert(ctx, name, payer, key, value, account) ==
    IF ~MappingAddressOk(name, key, value, account)
    THEN Fail(ctx, "AddressMismatch")
    ELSE IF ctx.ledger[account].owner # ID
    THEN LET created == CreateAccount(ctx, payer, account,
                            MinimumBalance(value.len), value.len, ID)
         IN  IF created.err # "Ok" THEN created
             ELSE CheckedWrite(created, value, account)
    ELSE CheckedWrite(ctx, value, account)

\* Mapping::update(self, key, value, account): never allocates, the payer
\* of the Mapping is not used.
MappingUpdate(ctx, name, payer, key, value, account) ==
    IF ~MappingAddressOk(name, key, value, account)
    THEN Fail(ctx, "AddressMismatch")
    ELSE IF ctx.ledger[account].owner # ID
    THEN Fail(ctx, "UninitializedAccount")
    ELSE CheckedWrite(ctx, value, account)

\* Mutant: create reports an account that exists as a successful call.
MappingCreateSilent(ctx, name, payer, key, value, account) ==
    IF ~MappingAddressOk(name, key, value, account)
    THEN Fail(ctx, "AddressMismatch")
    ELSE IF ctx.ledger[account].owner # ID
    THEN LET created == CreateAccount(ctx, payer, account,
                            MinimumBalance(value.len), value.len, ID)
         IN  IF created.err # "Ok" THEN created
             ELSE CheckedWrite(created, value, account)
    ELSE ctx

\* Mutant: create allocates the account and leaves its data zeroed.
MappingCreateUnwritten(ctx, name, payer, key, value, account) ==
    IF ~MappingAddressOk(name, key, value, account)
    THEN Fail(ctx, "AddressMismatch")
    ELSE IF ctx.ledger[account].owner # ID
    THEN CreateAccount(ctx, payer, account,
                       MinimumBalance(value.len), value.len, ID)
    ELSE Fail(ctx, "IllegalOwner")

\* Mapping::create(self, key, value, account).
MappingCreate(ctx, name, payer, key, value, account) ==
    IF ~MappingAddressOk(name, key, value, account)
    THEN Fail(ctx, "AddressMismatch")
    ELSE IF ctx.ledger[account].owner # ID
    THEN LET created == CreateAccount(ctx, payer, account,
                            MinimumBalance(value.len), value.len, ID)
         IN  IF created.err # "Ok" THEN created
             ELSE CheckedWrite(created, value, account)
    ELSE Fail(ctx, "IllegalOwner")

\* The checks and the write of the functions of impl Share, whose
\* align_of::<Self>() is the alignment of Share.
ShareCheckedWrite(ctx, value, account) ==
    IF ctx.ledger[account].space # value.len
    THEN Fail(ctx, "InvalidAccountData")
    ELSE IF ~DataAligned(ctx, AlignOfShare)
    THEN Fail(ctx, "InvalidAccountData")
    ELSE IF ~DataAligned(ctx, value.align)
    THEN Fail(ctx, "Panic")
    ELSE WriteData(ctx, account, value.cells)

\* Share::mapping_set(key, value, account, payer): the namespace is
\* b"shares" and the program crate::ID.
ShareMappingSet(ctx, key, value, account, payer) ==
    IF ~MappingAddressOk("shares", key, value, account)
    THEN Fail(ctx, "AddressMismatch")
    ELSE IF ctx.ledger[account].owner # ID
    THEN LET created == CreateAccount(ctx, payer, account,
                            MinimumBalance(value.len), value.len, ID)
         IN  IF created.err # "Ok" THEN created
             ELSE ShareCheckedWrite(created, value, account)
    ELSE ShareCheckedWrite(ctx, value, account)

\* Share::mapping_create(key, value, account, payer): the namespace is
\* b"shares" and the program crate::ID.
ShareMappingCreate(ctx, key, value, account, payer) ==
    IF ~MappingAddressOk("shares", key, value, account)
    THEN Fail(ctx, "AddressMismatch")
    ELSE IF ctx.ledger[account].owner # ID
    THEN LET created == CreateAccount(ctx, payer, account,
                            MinimumBalance(value.len), value.len, ID)
         IN  IF created.err # "Ok" THEN created
             ELSE ShareCheckedWrite(created, value, account)
    ELSE Fail(ctx, "AccountAlreadyInitialized")

----------------------------------------------------------------------------
(* Instruction handlers *)

\* Escrow::from_account_info followed by the four field writes.
WriteEscrow(ctx, account, cells) ==
    IF ctx.ledger[account].space # EscrowLEN
    THEN Fail(ctx, "InvalidAccountData")
    ELSE IF ~DataAligned(ctx, AlignOfEscrow)
    THEN Fail(ctx, "InvalidAccountData")
    ELSE WriteData(ctx, account, cells)

\* Mutant: the escrow account is never compared with the derived address.
MakeAddressUnchecked(maker, escrow_account, bump) == TRUE

\* assert_eq!(escrow_account_pda, *escrow_account.key()).
MakeAddressOk(maker, escrow_account, bump) ==
    Derive("escrow", maker, bump) = escrow_account

\* Mutant: the owner of the escrow account is not looked at.
MakeMayCreateAlways(acct) == TRUE

\* if escrow_account.owner() != &crate::ID.
MakeMayCreate(acct) == acct.owner # ID

\* Mutant: Make as an upsert, rewriting an escrow record that exists.
ProcessMakeUpsert(ctx, accounts, data) ==
    IF Len(accounts) < 3 THEN Fail(ctx, "NotEnoughAccountKeys")
    ELSE IF Len(data) = 0 THEN Fail(ctx, "Panic")
    ELSE
      LET maker == accounts[1]
          escrow_account == accounts[2]
          amount_to_receive == FromLeBytes(SubSeq(data, 2, 9))
          amount_to_give == FromLeBytes(SubSeq(data, 10, 17))
          bump == data[1]
          cells == EscrowCells(maker, amount_to_receive, amount_to_give, bump)
      IN  IF ~MakeAddressOk(maker, escrow_account, bump)
          THEN Fail(ctx, "AddressMismatch")
          ELSE IF MakeMayCreate(ctx.ledger[escrow_account])
          THEN LET created == CreateAccount(ctx, maker, escrow_account,
                                  MinimumBalance(EscrowLEN), EscrowLEN, ID)
               IN  IF created.err # "Ok" THEN created
                   ELSE WriteEscrow(created, escrow_account, cells)
          ELSE WriteEscrow(ctx, escrow_account, cells)

\* process_make_instruction(accounts, data).  The assertion and the index
\* data[0] panic; a panic ends the instruction like an error.
ProcessMake(ctx, accounts, data) ==
    IF Len(accounts) < 3 THEN Fail(ctx, "NotEnoughAccountKeys")
    ELSE IF Len(data) = 0 THEN Fail(ctx, "Panic")
    ELSE
      LET maker == accounts[1]
          escrow_account == accounts[2]
          amount_to_receive == FromLeBytes(SubSeq(data, 2, 9))
          amount_to_give == FromLeBytes(SubSeq(data, 10, 17))
          bump == data[1]
      IN  IF ~MakeAddressOk(maker, escrow_account, bump)
          THEN Fail(ctx, "AddressMismatch")
          ELSE IF MakeMayCreate(ctx.ledger[escrow_account])
          THEN LET created == CreateAccount(ctx, maker, escrow_account,
                                  MinimumBalance(EscrowLEN), EscrowLEN, ID)
               IN  IF created.err # "Ok" THEN created
                   ELSE WriteEscrow(created, escrow_account,
                            EscrowCells(maker, amount_to_receive,
                                        amount_to_give, bump))
          ELSE Fail(ctx, "IllegalOwner")

\* Mutant: the share record is keyed by the taker.
TakeShareKeyTaker(taker, maker) == taker

\* The key handed to the mapping: shares.set(maker.key(), ..).
TakeShareKey(taker, maker) == maker

\* Mutant: the transfer is made first, the upsert after it.
ProcessTakeTransferFirst(ctx, accounts, data) ==
    IF Len(accounts) < 5 THEN Fail(ctx, "NotEnoughAccountKeys")
    ELSE IF Len(data) = 0 THEN Fail(ctx, "Panic")
    ELSE
      LET taker == accounts[1]
          maker == accounts[2]
          shares_account == accounts[4]
          shares_bump == data[1]
          amount_to_receive == FromLeBytes(SubSeq(data, 2, 9))
          amount_to_give == FromLeBytes(SubSeq(data, 10, 17))
          shares_state == ShareValue(maker, taker,
                                     ToLeBytes(amount_to_give, 8), shares_bump)
          paid == Transfer(ctx, taker, maker, amount_to_receive)
      IN  IF paid.err # "Ok" THEN paid
          ELSE MappingSet(paid, "shares", taker, TakeShareKey(taker, maker),
                          shares_state, shares_account)

\* Mutant: a Take is let through without the system program account.
ProcessTakeShortList(ctx, accounts, data) ==
    IF Len(accounts) < 4 THEN Fail(ctx, "NotEnoughAccountKeys")
    ELSE IF Len(data) = 0 THEN Fail(ctx, "Panic")
    ELSE
      LET taker == accounts[1]
          maker == accounts[2]
          shares_account == accounts[4]
          shares_bump == data[1]
          amount_to_receive == FromLeBytes(SubSeq(data, 2, 9))
          amount_to_give == FromLeBytes(SubSeq(data, 10, 17))
          shares_state == ShareValue(maker, taker,
                                     ToLeBytes(amount_to_give, 8), shares_bump)
          stored == MappingSet(ctx, "shares", taker, TakeShareKey(taker, maker),
                               shares_state, shares_account)
      IN  IF stored.err # "Ok" THEN stored
          ELSE Transfer(stored, taker, maker, amount_to_receive)

\* Mutant: a Take is refused unless the escrow account holds a record of
\* the program.
ProcessTakeReadsEscrow(ctx, accounts, data) ==
    IF Len(accounts) < 5 THEN Fail(ctx, "NotEnoughAccountKeys")
    ELSE IF Len(data) = 0 THEN Fail(ctx, "Panic")
    ELSE IF ctx.ledger[accounts[3]].owner # ID
    THEN Fail(ctx, "IllegalOwner")
    ELSE
      LET taker == accounts[1]
          maker == accounts[2]
          shares_account == accounts[4]
          shares_bump == data[1]
          amount_to_receive == FromLeBytes(SubSeq(data, 2, 9))
          amount_to_give == FromLeBytes(SubSeq(data, 10, 17))
          shares_state == ShareValue(maker, taker,
                                     ToLeBytes(amount_to_give, 8), shares_bump)
          stored == MappingSet(ctx, "shares", taker, TakeShareKey(taker, maker),
                               shares_state, shares_account)
      IN  IF stored.err # "Ok" THEN stored
          ELSE Transfer(stored, taker, maker, amount_to_receive)

\* process_take_instruction(accounts, data): the mapping is
\* mapping!(b"shares", taker), so the taker pays for a new shares account.
ProcessTake(ctx, accounts, data) ==
    IF Len(accounts) < 5 THEN Fail(ctx, "NotEnoughAccountKeys")
    ELSE IF Len(data) = 0 THEN Fail(ctx, "Panic")
    ELSE
      LET taker == accounts[1]
          maker == accounts[2]
          shares_account == accounts[4]
          shares_bump == data[1]
          amount_to_receive == FromLeBytes(SubSeq(data, 2, 9))
          amount_to_give == FromLeBytes(SubSeq(data, 10, 17))
          shares_state == ShareValue(maker, taker,
                                     ToLeBytes(amount_to_give, 8), shares_bump)
          stored == MappingSet(ctx, "shares", taker, TakeShareKey(taker, maker),
                               shares_state, shares_account)
      IN  IF stored.err # "Ok" THEN stored
          ELSE Transfer(stored, taker, maker, amount_to_receive)

\* Mutant: whatever the handler did is installed, also when it failed.
CommitAlways(before, ctx) == ctx.ledger

\* The runtime's commit rule: the effects of an instruction are installed
\* only when it returns Ok.
Commit(before, ctx) == IF ctx.err = "Ok" THEN ctx.ledger ELSE before

\* EscrowInstrctions::try_from(discriminator): 0 is Make, 1 is Take, any
\* other byte is refused as an unknown discriminator.
EscrowInstrctionsTryFrom(discriminator) ==
    IF discriminator = 0 THEN "Make"
    ELSE IF discriminator = 1 THEN "Take"
    ELSE "UnknownDiscriminator"

\* Mutant: an opcode that is not Take is run as Make.
ProcessInstructionDefaultMake(ctx, accounts, instruction_data) ==
    IF Len(instruction_data) = 0
    THEN Fail(ctx, "InvalidInstructionData")
    ELSE IF Head(instruction_data) = 1
    THEN ProcessTake(ctx, accounts, Tail(instruction_data))
    ELSE ProcessMake(ctx, accounts, Tail(instruction_data))

\* Mutant: instruction data without an opcode byte is run as a Make.
ProcessInstructionNoSplit(ctx, accounts, instruction_data) ==
    IF Len(instruction_data) = 0
    THEN ProcessMake(ctx, accounts, EncodePayload(0, 0, 0))
    ELSE
      LET discriminator == Head(instruction_data)
          data == Tail(instruction_data)
          instruction == EscrowInstrctionsTryFrom(discriminator)
      IN  IF instruction = "UnknownDiscriminator"
          THEN Fail(ctx, "UnknownDiscriminator")
          ELSE IF instruction = "Make" THEN ProcessMake(ctx, accounts, data)
          ELSE IF instruction = "Take" THEN ProcessTake(ctx, accounts, data)
          ELSE Fail(ctx, "InvalidInstructionData")

\* process_instruction(program_id, accounts, instruction_data), called by
\* the runtime with program_id = ID: split off the discriminator, decode
\* it (the ? returns try_from's error), dispatch on the instruction.
ProcessInstruction(ctx, accounts, instruction_data) ==
    IF Len(instruction_data) = 0
    THEN Fail(ctx, "InvalidInstructionData")
    ELSE
      LET discriminator == Head(instruction_data)
          data == Tail(instruction_data)
          instruction == EscrowInstrctionsTryFrom(discriminator)
      IN  IF instruction = "UnknownDiscriminator"
          THEN Fail(ctx, "UnknownDiscriminator")
          ELSE IF instruction = "Make" THEN ProcessMake(ctx, accounts, data)
          ELSE IF instruction = "Take" THEN ProcessTake(ctx, accounts, data)
          ELSE Fail(ctx, "InvalidInstructionData")

----------------------------------------------------------------------------
(* Inputs *)

\* Well-formed instruction payloads: [bump][amount][amount].  (A payload
\* cut short after the bump makes the handlers read the amounts from the
\* bytes that follow the instruction data: any amount, as drawn here.)
Payloads == {EncodePayload(b, r, g) : b \in Bumps, r \in Amounts, g \in Amounts}

\* The escrow accounts a Make may supply: the maker's own, of any bump, and
\* as foreign accounts another namespace's and another user's.
MakeEscrowChoices(maker) ==
    {Derive("escrow", maker, b) : b \in Bumps}
        \cup {Derive("shares", maker, 0)}
        \cup {Derive("escrow", u, 0) : u \in Users}

\* The shares accounts a Take may supply: keyed by the maker or by the
\* taker, of any bump.
TakeSharesChoices(taker, maker) ==
    {Derive("shares", k, b) : k \in {taker, maker}, b \in Bumps}

\* Account lists of a Make: complete, or cut before the system program.
MakeAccountLists(maker) ==
    {<<maker, e, SystemProgramAccount>> : e \in MakeEscrowChoices(maker)}
        \cup {<<maker, Derive("escrow", maker, 0)>>}

\* Account lists of a Take: complete, or cut before the system program.
\* The escrow account named is the maker's escrow of bump 0 when the maker
\* is a user, and user 1's otherwise (Take never reads it).
TakeEscrow(maker) == Derive("escrow", IF maker \in Users THEN maker ELSE 1, 0)

TakeAccountLists(taker, maker) ==
    {<<taker, maker, TakeEscrow(maker), s, SystemProgramAccount>> :
        s \in TakeSharesChoices(taker, maker)}
        \cup {<<taker, maker, TakeEscrow(maker), Derive("shares", maker, 0)>>}

\* The payloads tried with an account list: every payload with a complete
\* list; with a list cut short, which the handler rejects before it reads
\* the payload, a single one.  The empty payload goes with every list.
PayloadsFor(accounts, complete) ==
    {<<>>} \cup (IF Len(accounts) >= complete THEN Payloads
                 ELSE {EncodePayload(0, 0, 0)})

\* The account list and payload sent with an opcode that is neither Make
\* nor Take: what a Make of a new escrow would be sent.
UnknownAccountLists ==
    {<<maker, Derive("escrow", maker, 0), SystemProgramAccount>> :
        maker \in Users}

\* Direct calls of the record store, as a program built on it makes them.
\* Keys and payers are users; the namespace is b"shares".
StoreKeys == Users

\* The values stored under a key: Share values and values of the second
\* record type, of any bump.
StoreValues(key, payer) ==
    {ShareValue(key, payer, ToLeBytes(g, 8), b) : g \in Amounts, b \in Bumps}
        \cup {WideValue(key, payer, ToLeBytes(0, 8), b) : b \in Bumps}

\* The accounts supplied with a key: its accounts of the namespace, of any
\* bump (the value's or another).
StoreTargets(key) == {Derive("shares", key, b) : b \in Bumps}

\* Where the supplied account's data starts: at a multiple of 8, as the
\* program loader places it, or at a multiple of 4 only.
DataPtrs == {8, 12}

----------------------------------------------------------------------------
(* Specification *)

NoInstruction ==
    [op |-> "none", accounts |-> <<>>, data |-> <<>>, result |-> "Ok", events |-> <<>>]

Init ==
    /\ ledger = [a \in Addresses |->
                    IF a \in Users
                    THEN [EmptyAccount EXCEPT !.lamports = InitialBalance]
                    ELSE EmptyAccount]
    /\ prev = ledger
    /\ last = NoInstruction
    /\ count = 0

\* One instruction, run to completion and committed or discarded.
Invoke(op, accounts, data, ctx) ==
    /\ last.op = "none"
    /\ count < MaxInstructions
    /\ count' = count + 1
    /\ ledger' = Commit(ledger, ctx)
    /\ prev' = ledger
    /\ last' = [op |-> op, accounts |-> accounts, data |-> data,
                result |-> ctx.err, events |-> ctx.events]

\* Opcode 0.
Make ==
    \E maker \in Users :
      \E accounts \in MakeAccountLists(maker) :
        \E data \in PayloadsFor(accounts, 3) :
          Invoke("Make", accounts, data,
                 ProcessInstruction(Start(ledger), accounts, <<0>> \o data))

\* Opcode 1.
Take ==
    \E taker \in Users, maker \in MakerAccounts :
      \E accounts \in TakeAccountLists(taker, maker) :
        \E data \in PayloadsFor(accounts, 5) :
          Invoke("Take", accounts, data,
                 ProcessInstruction(Start(ledger), accounts, <<1>> \o data))

\* The runtime hands the outcome to the client and is ready for the next
\* instruction.
Return ==
    /\ last.op # "none"
    /\ last' = NoInstruction
    /\ prev' = ledger
    /\ UNCHANGED <<ledger, count>>

\* Any other opcode; "data" keeps the whole instruction data.
Unknown ==
    \E opcode \in Opcodes \ {0, 1} :
      \E accounts \in UnknownAccountLists :
        LET instruction_data == <<opcode>> \o EncodePayload(0, 0, 0)
        IN  Invoke("Unknown", accounts, instruction_data,
                   ProcessInstruction(Start(ledger), accounts, instruction_data))

\* Instruction data without any byte, sent with the accounts of a Make.
NoData ==
    \E accounts \in UnknownAccountLists :
      Invoke("NoData", accounts, <<>>,
             ProcessInstruction(Start(ledger), accounts, <<>>))

Next == Make \/ Take \/ Unknown \/ NoData \/ Return

Spec == Init /\ [][Next]_vars

----------------------------------------------------------------------------
(* Specification of the record store called directly *)

\* One call of the record store, made by a program that returns the
\* store's error as its own: committed or discarded like an instruction.
\* "last" also keeps the key, the value and the data address of the call.
StoreInvoke(op, payer, key, value, account, ptr, ctx) ==
    /\ last.op = "none"
    /\ count < MaxInstructions
    /\ count' = count + 1
    /\ ledger' = Commit(ledger, ctx)
    /\ prev' = ledger
    /\ last' = [op |-> op, accounts |-> <<payer, account>>,
                data |-> value.cells, result |-> ctx.err,
                events |-> ctx.events,
                key |-> key, value |-> value, ptr |-> ptr]

StoreCreate ==
    \E payer \in Users, key \in StoreKeys, ptr \in DataPtrs :
      \E value \in StoreValues(key, payer), account \in StoreTargets(key) :
        StoreInvoke("create", payer, key, value, account, ptr,
            MappingCreate(StartAt(ledger, ptr), "shares", payer, key,
                          value, account))

StoreUpdate ==
    \E payer \in Users, key \in StoreKeys, ptr \in DataPtrs :
      \E value \in StoreValues(key, payer), account \in StoreTargets(key) :
        StoreInvoke("update", payer, key, value, account, ptr,
            MappingUpdate(StartAt(ledger, ptr), "shares", payer, key,
                          value, account))

StoreSet ==
    \E payer \in Users, key \in StoreKeys, ptr \in DataPtrs :
      \E value \in StoreValues(key, payer), account \in StoreTargets(key) :
        StoreInvoke("set", payer, key, value, account, ptr,
            MappingSet(StartAt(ledger, ptr), "shares", payer, key,
                       value, account))

ShareCreate ==
    \E payer \in Users, key \in StoreKeys, ptr \in DataPtrs :
      \E value \in StoreValues(key, payer), account \in StoreTargets(key) :
        StoreInvoke("mapping_create", payer, key, value, account, ptr,
            ShareMappingCreate(StartAt(ledger, ptr), key, value, account,
                               payer))

ShareSet ==
    \E payer \in Users, key \in StoreKeys, ptr \in DataPtrs :
      \E value \in StoreValues(key, payer), account \in StoreTargets(key) :
        StoreInvoke("mapping_set", payer, key, value, account, ptr,
            ShareMappingSet(StartAt(ledger, ptr), key, value, account,
                            payer))

NextStore ==
    StoreCreate \/ StoreUpdate \/ StoreSet \/ ShareCreate \/ ShareSet \/ Return

SpecStore == Init /\ [][NextStore]_vars

----------------------------------------------------------------------------
(* Vocabulary of the claims *)

\* The last instruction was a Make with a complete account list whose
\* payload encodes (b, r, g).
MadeWith(b, r, g) ==
    /\ last.op = "Make"
    /\ Len(last.accounts) >= 3
    /\ last.data = EncodePayload(b, r, g)

\* The last instruction was a Take with a complete account list whose
\* payload encodes (s, r, g).
TookWith(s, r, g) ==
    /\ last.op = "Take"
    /\ Len(last.accounts) >= 5
    /\ last.data = EncodePayload(s, r, g)

\* The stored record of an account, compared as a whole.
SameRecord(a) ==
    /\ ledger[a].data = prev[a].data
    /\ ledger[a].space = prev[a].space
    /\ ledger[a].owner = prev[a].owner

EventKinds == [i \in DOMAIN last.events |-> last.events[i].kind]

----------------------------------------------------------------------------
(* C1: Make creates the escrow record *)

\* The escrow record of account a is {maker, amount_to_receive,
\* amount_to_give, bump}.
EscrowRecordIs(a, maker, r, g, b) ==
    /\ ledger[a].owner = ID
    /\ EscrowMaker(ledger[a].data) = maker
    /\ EscrowAmountToReceive(ledger[a].data) = r
    /\ EscrowAmountToGive(ledger[a].data) = g
    /\ EscrowBump(ledger[a].data) = b

\* C1 as stated: every Make(b, r, g) signed by M against the account at
\* derive("escrow", M, b), not yet owned by the program, succeeds and leaves
\* the record {M, r, g, b} there.
C1_MakeAlwaysSucceeds ==
    \A b \in Bumps, r \in Amounts, g \in Amounts :
        (/\ MadeWith(b, r, g)
         /\ last.accounts[2] = Derive("escrow", last.accounts[1], b)
         /\ prev[last.accounts[2]].owner # ID)
        => (/\ last.result = "Ok"
            /\ EscrowRecordIs(last.accounts[2], last.accounts[1], r, g, b))

\* C1 amended: every Make(b, r, g) signed by M against the account at
\* derive("escrow", M, b) that is not yet owned by the program and holds no
\* balance, M holding at least the minimum exempt balance of the escrow
\* account, succeeds and leaves the record {M, r, g, b} there.
C1_MakeCreatesRecord ==
    \A b \in Bumps, r \in Amounts, g \in Amounts :
        (/\ MadeWith(b, r, g)
         /\ last.accounts[2] = Derive("escrow", last.accounts[1], b)
         /\ prev[last.accounts[2]].owner # ID
         /\ prev[last.accounts[2]].lamports = 0
         /\ prev[last.accounts[1]].lamports >= MinimumBalance(EscrowLEN))
        => (/\ last.result = "Ok"
            /\ EscrowRecordIs(last.accounts[2], last.accounts[1], r, g, b))

\* A Make with two different amounts has just created its record.
C1_Witness ==
    /\ MadeWith(1, 1, 0)
    /\ last.result = "Ok"
    /\ EscrowRecordIs(last.accounts[2], last.accounts[1], 1, 0, 1)

----------------------------------------------------------------------------
(* C2: Take moves amount_to_receive from the taker to the maker *)

\* C2: after every successful Take(s, r, g) of taker T naming maker M # T,
\* M holds exactly r more than before and T at least r less.
C2_TakeTransfers ==
    \A s \in Bumps, r \in Amounts, g \in Amounts :
        (/\ TookWith(s, r, g)
         /\ last.result = "Ok"
         /\ last.accounts[1] # last.accounts[2])
        => (/\ ledger[last.accounts[2]].lamports
                  = prev[last.accounts[2]].lamports + r
            /\ ledger[last.accounts[1]].lamports
                  <= prev[last.accounts[1]].lamports - r)

\* A Take that moved a positive amount between two accounts succeeded.
C2_Witness ==
    /\ \E s \in Bumps, g \in Amounts : TookWith(s, 1, g)
    /\ last.result = "Ok"
    /\ last.accounts[1] # last.accounts[2]
    /\ ledger[last.accounts[2]].lamports = prev[last.accounts[2]].lamports + 1

----------------------------------------------------------------------------
(* C3: where Take stores the share record *)

\* The share record of account a is {maker, taker, amount, bump}.
ShareRecordIs(a, maker, taker, g, s) ==
    /\ ledger[a].owner = ID
    /\ ShareMaker(ledger[a].data) = maker
    /\ ShareTaker(ledger[a].data) = taker
    /\ ShareAmount(ledger[a].data) = g
    /\ ShareBump(ledger[a].data) = s

\* C3 as stated: after every successful Take(s, _, g) of taker T naming
\* maker M the record {M, T, g, s} is stored at derive("shares", T, s).
C3_ShareKeyedByTaker ==
    \A s \in Bumps, r \in Amounts, g \in Amounts :
        (TookWith(s, r, g) /\ last.result = "Ok")
        => ShareRecordIs(Derive("shares", last.accounts[1], s),
                         last.accounts[2], last.accounts[1], g, s)

\* C3 amended: after every successful Take(s, _, g) of taker T naming maker
\* M the record {M, T, g, s} is stored in the shares account supplied,
\* whose address is derive("shares", M, s): keyed by the maker.
C3_ShareKeyedByMaker ==
    \A s \in Bumps, r \in Amounts, g \in Amounts :
        (TookWith(s, r, g) /\ last.result = "Ok")
        => (/\ last.accounts[4] = Derive("shares", last.accounts[2], s)
            /\ ShareRecordIs(last.accounts[4],
                             last.accounts[2], last.accounts[1], g, s))

\* A Take of a taker other than the maker stored a record with a non-zero
\* amount and bump.
C3_Witness ==
    /\ \E r \in Amounts : TookWith(1, r, 1)
    /\ last.result = "Ok"
    /\ last.accounts[1] # last.accounts[2]
    /\ ShareRecordIs(Derive("shares", last.accounts[2], 1),
                     last.accounts[2], last.accounts[1], 1, 1)

----------------------------------------------------------------------------
(* C4: order of the two steps of Take *)

\* C4 as stated: within a Take, the shares account is neither allocated
\* nor written before the transfer has been performed.
C4_TransferBeforeUpsert ==
    last.op = "Take" =>
        \A i \in DOMAIN last.events :
            last.events[i].kind \in {"CreateAccount", "Write"}
                => \E j \in 1 .. (i - 1) : last.events[j].kind = "Transfer"

\* C4 amended: within a Take the upsert comes strictly first; the transfer
\* is never performed before the share record has been written.
C4_UpsertBeforeTransfer ==
    last.op = "Take" =>
        \A i \in DOMAIN last.events :
            last.events[i].kind = "Transfer"
                => \E j \in 1 .. (i - 1) :
                      /\ last.events[j].kind = "Write"
                      /\ last.events[j].acct = last.accounts[4]

\* A Take allocated, wrote and then transferred.
C4_Witness ==
    /\ last.op = "Take"
    /\ EventKinds = <<"CreateAccount", "Write", "Transfer">>

----------------------------------------------------------------------------
(* C5: a Take whose transfer is underfunded leaves nothing behind *)

----------------------------------------------------------------------------
(* C6: Make never re-initialises *)

\* C6: a Make against its own escrow account, already owned by the
\* program, fails with IllegalOwner before any host call and changes
\* nothing; so the record a first Make wrote survives a second one.
C6_MakeOnOwnedFails ==
    \A b \in Bumps, r \in Amounts, g \in Amounts :
        (/\ MadeWith(b, r, g)
         /\ last.accounts[2] = Derive("escrow", last.accounts[1], b)
         /\ prev[last.accounts[2]].owner = ID)
        => (/\ last.result = "IllegalOwner"
            /\ last.events = <<>>
            /\ ledger = prev
            /\ EscrowMaker(ledger[last.accounts[2]].data) = last.accounts[1])

\* A second Make with other amounts than the stored ones was refused.
C6_Witness ==
    /\ last.op = "Make"
    /\ last.result = "IllegalOwner"
    /\ \E r \in Amounts, g \in Amounts :
          /\ MadeWith(0, r, g)
          /\ EscrowAmountToReceive(ledger[last.accounts[2]].data) # r

----------------------------------------------------------------------------
(* C7: an escrow record is never changed once created *)

\* C7: whatever instruction runs, an escrow account that was owned by the
\* program before it has the same data, length and owner after it.
C7_EscrowRecordImmutable ==
    \A a \in EscrowAddresses : prev[a].owner = ID => SameRecord(a)

\* A successful Take named an existing escrow account as its maker and
\* paid into it.
C7_Witness ==
    /\ last.op = "Take"
    /\ last.result = "Ok"
    /\ last.accounts[2] \in EscrowAddresses
    /\ prev[last.accounts[2]].owner = ID
    /\ ledger[last.accounts[2]].lamports > prev[last.accounts[2]].lamports

----------------------------------------------------------------------------
(* C8: Make checks the escrow address first *)

\* C8: a Make (complete account list, payload present) whose escrow
\* account is not derive("escrow", maker, bump) stops at the address
\* assertion before any host call, and no account is changed.
C8_MakeAddressMismatch ==
    \A b \in Bumps, r \in Amounts, g \in Amounts :
        (/\ MadeWith(b, r, g)
         /\ last.accounts[2] # Derive("escrow", last.accounts[1], b))
        => (/\ last.result = "AddressMismatch"
            /\ last.events = <<>>
            /\ ledger = prev)

\* A Make named the maker's escrow account of another bump, still
\* unallocated, and was stopped.
C8_Witness ==
    /\ \E r \in Amounts, g \in Amounts : MadeWith(1, r, g)
    /\ last.accounts[2] = Derive("escrow", last.accounts[1], 0)
    /\ last.result = "AddressMismatch"
    /\ ledger[last.accounts[2]] = EmptyAccount

----------------------------------------------------------------------------
(* C9: a repeated Take overwrites the amount *)

----------------------------------------------------------------------------
(* C10: which Takes can touch a share record *)

\* C10 as stated: a Take of taker T2 changes no share record written by a
\* Take of another taker T1.
C10_SharePerTaker ==
    last.op = "Take" =>
        \A a \in ShareAddresses :
            (/\ prev[a].owner = ID
             /\ ShareTaker(prev[a].data) # last.accounts[1])
            => SameRecord(a)

\* C10 amended: share records are per (maker, bump): a Take naming maker M2
\* with bump s changes no share record written by a Take naming another
\* maker or using another bump; a record is overwritten only by a later
\* Take naming the same maker with the same bump, signed by any taker.
C10_SharePerMaker ==
    \A s \in Bumps, r \in Amounts, g \in Amounts :
        TookWith(s, r, g) =>
            \A a \in ShareAddresses :
                (/\ prev[a].owner = ID
                 /\ \/ ShareMaker(prev[a].data) # last.accounts[2]
                    \/ ShareBump(prev[a].data) # s)
                => SameRecord(a)

\* A Take of one taker replaced the record of another taker, while a
\* record of another maker stayed.
C10_Witness ==
    /\ last.op = "Take"
    /\ last.result = "Ok"
    /\ prev[last.accounts[4]].owner = ID
    /\ ShareTaker(prev[last.accounts[4]].data) # last.accounts[1]
    /\ ShareTaker(ledger[last.accounts[4]].data) = last.accounts[1]
    /\ \E a \in ShareAddresses \ {last.accounts[4]} : prev[a].owner = ID

----------------------------------------------------------------------------
(* Specification of the record store with a strictly aligned record type *)

\* The values stored under a key: Share values and values of the third
\* record type, of any bump.
TypedValues(key, payer) ==
    {ShareValue(key, payer, ToLeBytes(0, 8), b) : b \in Bumps}
        \cup {QuadValue(key, payer, ToLeBytes(0, 8), b) : b \in Bumps}

\* Where the supplied account's data starts: at a multiple of 8 that is
\* not one of 16, at a multiple of 4 only, at a multiple of 16.
TypedPtrs == {8, 12, 16}

TypedCreate ==
    \E payer \in Users, key \in StoreKeys, ptr \in TypedPtrs :
      \E value \in TypedValues(key, payer), account \in StoreTargets(key) :
        StoreInvoke("create", payer, key, value, account, ptr,
            MappingCreate(StartAt(ledger, ptr), "shares", payer, key,
                          value, account))

TypedUpdate ==
    \E payer \in Users, key \in StoreKeys, ptr \in TypedPtrs :
      \E value \in TypedValues(key, payer), account \in StoreTargets(key) :
        StoreInvoke("update", payer, key, value, account, ptr,
            MappingUpdate(StartAt(ledger, ptr), "shares", payer, key,
                          value, account))

TypedSet ==
    \E payer \in Users, key \in StoreKeys, ptr \in TypedPtrs :
      \E value \in TypedValues(key, payer), account \in StoreTargets(key) :
        StoreInvoke("set", payer, key, value, account, ptr,
            MappingSet(StartAt(ledger, ptr), "shares", payer, key,
                       value, account))

NextTyped == TypedCreate \/ TypedUpdate \/ TypedSet \/ Return

SpecTyped == Init /\ [][NextTyped]_vars

----------------------------------------------------------------------------
(* Vocabulary of the claims on the record store *)

StoreOps == {"create", "update", "set", "mapping_create", "mapping_set"}

\* The payer and the target account of the last store call.
StorePayer == last.accounts[1]

StoreTarget == last.accounts[2]

\* The last call was one of ops on the account derived from its key and the
\* bump of its value.
StoreCalled(ops) ==
    /\ last.op \in ops
    /\ Derive("shares", last.key, last.value.bump) = StoreTarget

\* The data of the last call's account starts where the program loader
\* places account data, at a multiple of 8.
LoaderPlaced == last.ptr % 8 = 0

\* The last call performed no host effect and changed nothing.
NothingDone == last.events = <<>> /\ ledger = prev

----------------------------------------------------------------------------
(* C11: create on a record that exists *)

\* C11: a create for a (namespace, key, bump) whose record a first create
\* has made fails with AccountAlreadyInitialized and leaves the record's
\* bytes, length, owner and balance as they were, through Mapping::create
\* as through Share::mapping_create.
C11_SecondCreateAlreadyInitialized ==
    (StoreCalled({"create", "mapping_create"}) /\ prev[StoreTarget].owner = ID)
        => (last.result = "AccountAlreadyInitialized" /\ NothingDone)

----------------------------------------------------------------------------
(* C12: update never allocates *)

\* C12: an update of a correctly addressed account that the program does
\* not own fails with UninitializedAccount without allocating, debiting or
\* writing anything; an update of an account the program owns, of the
\* value's size, changes its data to the value and nothing else.
C12_UpdateOnlyOverwrites ==
    StoreCalled({"update"}) =>
        /\ prev[StoreTarget].owner # ID
              => (last.result = "UninitializedAccount" /\ NothingDone)
        /\ (/\ prev[StoreTarget].owner = ID
            /\ prev[StoreTarget].space = last.value.len
            /\ LoaderPlaced)
              => /\ last.result = "Ok"
                 /\ ledger = [prev EXCEPT ![StoreTarget].data = last.value.cells]

\* An update of an account nobody has created, by a payer who could have
\* paid for it, was refused.
C12_Witness ==
    /\ StoreCalled({"update"})
    /\ prev[StoreTarget].owner = SYSTEM_PROGRAM
    /\ prev[StorePayer].lamports >= MinimumBalance(last.value.len)
    /\ last.result = "UninitializedAccount"
    /\ ledger = prev

----------------------------------------------------------------------------
(* C13: set is create or update *)

\* What create (on an account the program does not own) or update (on one
\* it owns) makes of the last call's inputs, run from the same ledger.
CreateOrUpdate ==
    LET ctx == StartAt(prev, last.ptr)
    IN  IF prev[StoreTarget].owner # ID
        THEN MappingCreate(ctx, "shares", StorePayer, last.key, last.value,
                           StoreTarget)
        ELSE MappingUpdate(ctx, "shares", StorePayer, last.key, last.value,
                           StoreTarget)

\* C13: every set of a correctly addressed account has the outcome, the
\* host effects and the resulting ledger of create when the program does
\* not own the account and of update when it does.
C13_SetIsCreateOrUpdate ==
    StoreCalled({"set"}) =>
        /\ last.result = CreateOrUpdate.err
        /\ last.events = CreateOrUpdate.events
        /\ ledger = Commit(prev, CreateOrUpdate)

\* A set has replaced the value of a record that existed.
C13_Witness ==
    /\ StoreCalled({"set"})
    /\ prev[StoreTarget].owner = ID
    /\ last.result = "Ok"
    /\ prev[StoreTarget].data # last.value.cells
    /\ ledger[StoreTarget].data = last.value.cells

----------------------------------------------------------------------------
(* C14: the stored bytes are those of the last successful write *)

\* C14: after a successful create, update or set the account holds exactly
\* the bytes of the value passed, in storage of the value's size, and a
\* call that fails leaves every record as the last successful one wrote it.
C14_RoundTrip ==
    StoreCalled({"create", "update", "set"}) =>
        IF last.result = "Ok"
        THEN /\ ledger[StoreTarget].data = last.value.cells
             /\ ledger[StoreTarget].space = last.value.len
             /\ ledger[StoreTarget].owner = ID
        ELSE ledger = prev

\* An update has replaced the value a create or set had stored.
C14_Witness ==
    /\ StoreCalled({"update"})
    /\ last.result = "Ok"
    /\ prev[StoreTarget].data # <<>>
    /\ prev[StoreTarget].data # last.value.cells
    /\ ledger[StoreTarget].data = last.value.cells

----------------------------------------------------------------------------
(* C15: set is idempotent *)

\* The same set made once more, from the ledger the last call left, by any
\* payer.
SetAgain(payer) ==
    MappingSet(StartAt(ledger, last.ptr), "shares", payer, last.key,
               last.value, StoreTarget)

\* C15: when a set has succeeded, the same set made again succeeds, makes
\* no CreateAccount call and leaves the whole ledger as the first left it.
C15_SetIdempotent ==
    (StoreCalled({"set"}) /\ last.result = "Ok") =>
        \A payer \in Users :
            /\ SetAgain(payer).err = "Ok"
            /\ SetAgain(payer).ledger = ledger
            /\ \A i \in DOMAIN SetAgain(payer).events :
                   SetAgain(payer).events[i].kind # "CreateAccount"

\* A set was made a second time with the value the record already held.
C15_Witness ==
    /\ StoreCalled({"set"})
    /\ last.result = "Ok"
    /\ prev[StoreTarget].owner = ID
    /\ prev[StoreTarget].data = last.value.cells
    /\ ledger = prev

----------------------------------------------------------------------------
(* C16: a different bump is a different address *)

\* C16: when the account of a record created under bump b is handed to
\* create, update or set with a value of the same key and another bump,
\* the address derived differs from the account's, the call ends with the
\* address mismatch before any host call or write, and nothing changes.
C16_OtherBumpMismatch ==
    \A b \in Bumps :
        (/\ last.op \in StoreOps
         /\ StoreTarget = Derive("shares", last.key, b)
         /\ prev[StoreTarget].owner = ID
         /\ last.value.bump # b)
            => /\ Derive("shares", last.key, last.value.bump) # StoreTarget
               /\ last.result = "AddressMismatch"
               /\ NothingDone

\* A set on an existing record with another bump was refused.
C16_Witness ==
    /\ last.op = "set"
    /\ prev[StoreTarget].owner = ID
    /\ prev[StoreTarget].data # <<>>
    /\ last.value.bump # ShareBump(prev[StoreTarget].data)
    /\ last.value.len = ShareLEN
    /\ prev[StoreTarget].space = ShareLEN
    /\ last.result = "AddressMismatch"
    /\ ledger = prev

----------------------------------------------------------------------------
(* C17: an opcode that is neither Make nor Take *)

\* C17: an instruction whose first byte is neither 0 nor 1 ends with
\* UnknownDiscriminator; no handler runs: no host call is made and no
\* account changes.
C17_UnknownOpcodeRefused ==
    (last.op = "Unknown" /\ Head(last.data) \notin {0, 1})
        => /\ last.result = "UnknownDiscriminator"
           /\ last.events = <<>>
           /\ ledger = prev

\* Opcode 2 was sent with the accounts and payload of a Make that would
\* have created the escrow record, and was refused.
C17_Witness ==
    /\ last.op = "Unknown"
    /\ Head(last.data) = 2
    /\ prev[last.accounts[2]].owner = SYSTEM_PROGRAM
    /\ prev[last.accounts[1]].lamports >= MinimumBalance(EscrowLEN)
    /\ last.result = "UnknownDiscriminator"
    /\ ledger = prev

----------------------------------------------------------------------------
(* C18: sizes of the accounts the instructions create *)

\* C18: every account a Make has created has 49 bytes of storage, the size
\* of the Escrow layout, and every account a Take has created has 73, the
\* size of the Share layout.
C18_RecordSizes ==
    \A i \in DOMAIN last.events :
        (last.result = "Ok" /\ last.events[i].kind = "CreateAccount")
            => /\ last.op = "Make"
                    => ledger[last.events[i].acct].space = SizeOfEscrow
               /\ last.op = "Take"
                    => ledger[last.events[i].acct].space = ShareLEN

----------------------------------------------------------------------------
(* C20: too few accounts *)

\* C20: a Make with fewer than 3 accounts and a Take with fewer than 5 end
\* with NotEnoughAccountKeys whatever the payload, an empty one included,
\* without any host call and without changing any account.
C20_MissingAccounts ==
    /\ (last.op = "Make" /\ Len(last.accounts) < 3)
          => /\ last.result = "NotEnoughAccountKeys"
             /\ last.events = <<>>
             /\ ledger = prev
    /\ (last.op = "Take" /\ Len(last.accounts) < 5)
          => /\ last.result = "NotEnoughAccountKeys"
             /\ last.events = <<>>
             /\ ledger = prev

\* A Take of four accounts, sent without the system program and with an
\* empty payload, was refused for its account list.
C20_Witness ==
    /\ last.op = "Take"
    /\ Len(last.accounts) = 4
    /\ last.data = <<>>
    /\ last.result = "NotEnoughAccountKeys"
    /\ ledger = prev

----------------------------------------------------------------------------
(* C19: which validation failures can be told apart *)

\* The last store call, and the calls like it: the same payer, key and
\* account, any operation, value and data address.
LastCall ==
    [op |-> last.op, payer |-> StorePayer, key |-> last.key,
     value |-> last.value, account |-> StoreTarget, ptr |-> last.ptr]

CallsLikeLast ==
    {[op |-> op, payer |-> StorePayer, key |-> last.key, value |-> value,
      account |-> StoreTarget, ptr |-> ptr] :
        op \in StoreOps, value \in StoreValues(last.key, StorePayer),
        ptr \in DataPtrs}

\* The outcome of call c made on ledger l.
OutcomeOf(c, l) ==
    LET ctx == StartAt(l, c.ptr)
    IN  CASE c.op = "create" ->
                MappingCreate(ctx, "shares", c.payer, c.key, c.value,
                              c.account).err
          [] c.op = "update" ->
                MappingUpdate(ctx, "shares", c.payer, c.key, c.value,
                              c.account).err
          [] c.op = "set" ->
                MappingSet(ctx, "shares", c.payer, c.key, c.value,
                           c.account).err
          [] c.op = "mapping_create" ->
                ShareMappingCreate(ctx, c.key, c.value, c.account,
                                   c.payer).err
          [] c.op = "mapping_set" ->
                ShareMappingSet(ctx, c.key, c.value, c.account,
                                c.payer).err

\* The alignment against which the operation checks the data address.
AlignmentCheckedBy(op) ==
    IF op \in {"mapping_create", "mapping_set"}
    THEN AlignOfShare
    ELSE AlignOfMapping

\* The host allocates the account for call c on ledger l.
Allocated(c, l) ==
    /\ c.op # "update"
    /\ CreateAccountTargetUsable(l[c.account])
    /\ l[c.payer].lamports >= MinimumBalance(c.value.len)

\* The validation that call c fails on ledger l, by the inputs alone, or
\* "none" when every validation passes or the host refuses the allocation.
FailureKind(c, l) ==
    IF Derive("shares", c.key, c.value.bump) # c.account
    THEN "address mismatch"
    ELSE IF l[c.account].owner = ID
    THEN IF c.op \in {"create", "mapping_create"} THEN "create on owned"
         ELSE IF l[c.account].space # c.value.len THEN "size mismatch"
         ELSE IF c.ptr % AlignmentCheckedBy(c.op) # 0 THEN "invalid alignment"
         ELSE "none"
    ELSE IF c.op = "update" THEN "update on non-owned"
         ELSE IF Allocated(c, l) /\ c.ptr % AlignmentCheckedBy(c.op) # 0
         THEN "invalid alignment"
         ELSE "none"

\* The outcomes of instructions sent with too few accounts, and of
\* instructions with an opcode that is neither Make nor Take, on ledger l.
MissingAccountsOutcomes(l) ==
    {ProcessInstruction(Start(l), accounts, <<0>> \o EncodePayload(0, 0, 0)).err :
        accounts \in {a \in UNION {MakeAccountLists(m) : m \in Users} :
                        Len(a) < 3}}
    \cup
    {ProcessInstruction(Start(l), accounts, <<1>> \o EncodePayload(0, 0, 0)).err :
        accounts \in {a \in UNION {TakeAccountLists(t, m) :
                                      t \in Users, m \in MakerAccounts} :
                        Len(a) < 5}}

UnknownOpcodeOutcomes(l) ==
    {ProcessInstruction(Start(l), accounts,
                        <<opcode>> \o EncodePayload(0, 0, 0)).err :
        opcode \in Opcodes \ {0, 1}, accounts \in UnknownAccountLists}

\* The failure kinds no outcome tells apart: a size mismatch and an invalid
\* alignment are one class, every other kind is a class of its own.
FailureClass(kind) ==
    IF kind \in {"size mismatch", "invalid alignment"}
    THEN "invalid account data"
    ELSE kind

\* The outcomes, on ledger l, of the store calls like the last whose failure
\* is of another kind than kind.
OutcomesOfOtherKinds(kind, l) ==
    {OutcomeOf(c, l) :
        c \in {d \in CallsLikeLast : FailureKind(d, l) \notin {"none", kind}}}

\* The same with kinds of one class taken as one kind.
OutcomesOfOtherClasses(kind, l) ==
    {OutcomeOf(c, l) :
        c \in {d \in CallsLikeLast :
                 /\ FailureKind(d, l) # "none"
                 /\ FailureClass(FailureKind(d, l)) # FailureClass(kind)}}

\* C19 as claimed: a store call that fails a validation is not reported as
\* a success, and its outcome is the outcome of no call or instruction
\* failing a validation of another kind (address mismatch, create on an
\* owned record, update on a non-owned one, size mismatch, invalid
\* alignment, missing accounts, unknown opcode); missing accounts and an
\* unknown opcode differ too and are not successes.
C19_EveryKindDistinct ==
    LET missing == MissingAccountsOutcomes(ledger)
        unknown == UnknownOpcodeOutcomes(ledger)
    IN  /\ (last.op \in StoreOps /\ FailureKind(LastCall, prev) # "none")
              => /\ last.result \notin {"Ok"} \cup missing \cup unknown
                 /\ last.result \notin
                        OutcomesOfOtherKinds(FailureKind(LastCall, prev), prev)
        /\ missing \cap unknown = {}
        /\ "Ok" \notin missing \cup unknown

\* C19: the same, except that a size mismatch and an invalid alignment are
\* both reported as InvalidAccountData and so are not told apart from one
\* another; they are told apart from every other kind.
C19_KindsDistinctButInvalidData ==
    LET missing == MissingAccountsOutcomes(ledger)
        unknown == UnknownOpcodeOutcomes(ledger)
    IN  /\ (last.op \in StoreOps /\ FailureKind(LastCall, prev) # "none")
              => /\ last.result \notin {"Ok"} \cup missing \cup unknown
                 /\ last.result \notin
                        OutcomesOfOtherClasses(FailureKind(LastCall, prev), prev)
                 /\ FailureClass(FailureKind(LastCall, prev)) = "invalid account data"
                        => last.result = "InvalidAccountData"
        /\ missing \cap unknown = {}
        /\ "Ok" \notin missing \cup unknown

\* An update with a value of another size than the record's was refused
\* with the outcome that an update at a misplaced data address would have
\* had on the same record.
C19_Witness ==
    /\ last.op = "update"
    /\ FailureKind(LastCall, prev) = "size mismatch"
    /\ last.result = "InvalidAccountData"
    /\ \E c \in CallsLikeLast :
          /\ FailureKind(c, prev) = "invalid alignment"
          /\ OutcomeOf(c, prev) = last.result
    /\ ledger = prev

----------------------------------------------------------------------------
(* C21: Take does not look at the escrow account *)

\* What the escrow account named by a Take may be: absent, an account of
\* the system program holding value, or an escrow record of the program
\* with any maker and amounts.
EscrowAccountVariants ==
    {EmptyAccount, [EmptyAccount EXCEPT !.lamports = 1]}
        \cup {[lamports |-> MinimumBalance(EscrowLEN), owner |-> ID,
               space |-> EscrowLEN, data |-> EscrowCells(m, r, g, 0)] :
                 m \in Users, r \in Amounts, g \in Amounts}

\* The last Take run on the ledger it started from, with the escrow
\* account it names replaced by e.
TakeWithEscrow(e) ==
    LET before == [prev EXCEPT ![last.accounts[3]] = e]
        ctx == ProcessInstruction(Start(before), last.accounts,
                                  <<1>> \o last.data)
    IN  [result |-> ctx.err, events |-> ctx.events,
         ledger |-> Commit(before, ctx)]

\* C21: a Take whose escrow account is none of the taker, the maker and
\* the shares account has, whatever the escrow account is replaced by, the
\* outcome and host calls it had and the effect it had on every other
\* account, and leaves the replaced escrow account as it was given.
C21_TakeIgnoresEscrow ==
    (/\ last.op = "Take"
     /\ Len(last.accounts) >= 5
     /\ last.accounts[3] \notin {last.accounts[1], last.accounts[2],
                                 last.accounts[4]})
        => \A e \in EscrowAccountVariants :
              LET other == TakeWithEscrow(e)
              IN  /\ other.result = last.result
                  /\ other.events = last.events
                  /\ other.ledger = [ledger EXCEPT ![last.accounts[3]] = e]

\* A Take has succeeded, paying the maker, on an escrow account that no
\* Make has ever created.
C21_Witness ==
    /\ \E s \in Bumps, g \in Amounts : TookWith(s, 1, g)
    /\ last.result = "Ok"
    /\ last.accounts[1] # last.accounts[2]
    /\ last.accounts[3] \notin {last.accounts[1], last.accounts[2],
                                last.accounts[4]}
    /\ prev[last.accounts[3]] = EmptyAccount
    /\ ledger[last.accounts[2]].lamports = prev[last.accounts[2]].lamports + 1

----------------------------------------------------------------------------
(* C22: an escrow account sits at the address of its own record *)

\* C22: every escrow account the program owns is at the address derived
\* from the maker and the bump stored in its record.
C22_EscrowIdentity ==
    \A a \in EscrowAddresses :
        ledger[a].owner = ID
            => /\ ledger[a].data # <<>>
               /\ a = Derive("escrow", EscrowMaker(ledger[a].data),
                             EscrowBump(ledger[a].data))

\* A Make with bump 1 has created the record of the maker's second escrow
\* address.
C22_Witness ==
    /\ \E r \in Amounts, g \in Amounts : MadeWith(1, r, g)
    /\ last.result = "Ok"
    /\ ledger[last.accounts[2]].owner = ID
    /\ EscrowBump(ledger[last.accounts[2]].data) = 1
    /\ last.accounts[2] = Derive("escrow", last.accounts[1], 1)

----------------------------------------------------------------------------
(* C26: Make and Take conserve value *)

RECURSIVE SumOfBalances(_, _)
\* The sum of the balances of the accounts in set as on ledger l.
SumOfBalances(l, set) ==
    IF set = {} THEN 0
    ELSE LET a == CHOOSE x \in set : TRUE
         IN  l[a].lamports + SumOfBalances(l, set \ {a})

\* The accounts between which the last instruction may move value: its
\* first account (maker of a Make, taker of a Take), its second (escrow
\* account of a Make, maker of a Take) and the shares account of a Take.
ValueParties ==
    {last.accounts[i] : i \in DOMAIN last.accounts \cap {1, 2}}
        \cup (IF last.op = "Take"
              THEN {last.accounts[i] : i \in DOMAIN last.accounts \cap {4}}
              ELSE {})

\* C26: after every Make and every Take, successful or not, the balances
\* of all accounts sum to what they summed to before, and only the
\* balances of the instruction's payer, maker and record account differ.
C26_ValueConserved ==
    last.op \in {"Make", "Take"} =>
        /\ SumOfBalances(ledger, Addresses) = SumOfBalances(prev, Addresses)
        /\ \A a \in Addresses :
              ledger[a].lamports # prev[a].lamports => a \in ValueParties

\* A Take has allocated the shares account and paid the maker: three
\* balances have changed.
C26_Witness ==
    /\ \E s \in Bumps, g \in Amounts : TookWith(s, 1, g)
    /\ last.result = "Ok"
    /\ ledger[last.accounts[1]].lamports < prev[last.accounts[1]].lamports
    /\ ledger[last.accounts[2]].lamports > prev[last.accounts[2]].lamports
    /\ ledger[last.accounts[4]].lamports > prev[last.accounts[4]].lamports

----------------------------------------------------------------------------
(* C28: instruction data without an opcode byte *)

\* C28: an instruction whose data is empty ends with InvalidInstructionData
\* without any handler run: no host call is made and no account changes.
C28_EmptyDataRefused ==
    (last.op = "NoData" /\ last.data = <<>>)
        => /\ last.result = "InvalidInstructionData"
           /\ last.events = <<>>
           /\ ledger = prev

\* Empty instruction data was sent with the accounts of a Make that would
\* have created the escrow record, and was refused.
C28_Witness ==
    /\ last.op = "NoData"
    /\ last.data = <<>>
    /\ Len(last.accounts) = 3
    /\ prev[last.accounts[2]].owner = SYSTEM_PROGRAM
    /\ prev[last.accounts[1]].lamports >= MinimumBalance(EscrowLEN)
    /\ last.result = "InvalidInstructionData"
    /\ ledger = prev

----------------------------------------------------------------------------
(* C23: what an allocation changes *)

\* Ledger after is ledger before with account target allocated for a
\* record of size bytes at the expense of funder, and nothing else changed
\* but the data written into target.
AllocatedFrom(before, after, target, funder, size) ==
    /\ after[target].space = size
    /\ after[target].owner = ID
    /\ after[target].lamports = MinimumBalance(size)
    /\ before[target].lamports = 0
    /\ after[funder].lamports = before[funder].lamports - MinimumBalance(size)
    /\ \A a \in Addresses \ {target, funder} : after[a] = before[a]
    /\ after[funder].owner = before[funder].owner
    /\ after[funder].data = before[funder].data

\* The set made by the last Take, run on the ledger the Take started from.
SetOfTake ==
    MappingSet(Start(prev), "shares", last.accounts[1],
               TakeShareKey(last.accounts[1], last.accounts[2]),
               ShareValue(last.accounts[2], last.accounts[1],
                          SubSeq(last.data, 10, 17), last.data[1]),
               last.accounts[4])

\* C23: a Make that allocates its escrow account gives it the 49 bytes of
\* an Escrow, makes the program its owner and moves exactly the minimum
\* balance of that size from the maker to it; the set of a Take that
\* allocates the shares account does the same with the 73 bytes of a Share
\* and the taker; nothing else changes.
C23_AllocationFrame ==
    /\ (/\ last.op = "Make"
        /\ last.result = "Ok"
        /\ \E i \in DOMAIN last.events : last.events[i].kind = "CreateAccount")
          => AllocatedFrom(prev, ledger, last.accounts[2], last.accounts[1],
                           SizeOfEscrow)
    /\ (/\ last.op = "Take"
        /\ last.result = "Ok"
        /\ \E i \in DOMAIN last.events : last.events[i].kind = "CreateAccount")
          => AllocatedFrom(prev, SetOfTake.ledger, last.accounts[4],
                           last.accounts[1], ShareLEN)

----------------------------------------------------------------------------
(* C24: a record of another size is not overwritten *)

\* C24: an update or a set of a correctly addressed account that the
\* program owns and whose storage is not of the value's size ends with
\* InvalidAccountData before anything is written: no host call, no write,
\* and the account's bytes, length and owner stay as they were.
C24_SizeMismatchRefused ==
    (/\ StoreCalled({"update", "set"})
     /\ prev[StoreTarget].owner = ID
     /\ prev[StoreTarget].space # last.value.len)
        => /\ last.result = "InvalidAccountData"
           /\ NothingDone

\* A set of a Share value on an account holding a record of the longer
\* type was refused.
C24_Witness ==
    /\ StoreCalled({"set"})
    /\ prev[StoreTarget].owner = ID
    /\ prev[StoreTarget].space = WideLEN
    /\ prev[StoreTarget].data # <<>>
    /\ last.value.len = ShareLEN
    /\ last.result = "InvalidAccountData"
    /\ ledger = prev

----------------------------------------------------------------------------
(* C29: the functions of impl Share against those of Mapping *)

\* What Mapping::set (for mapping_set) or Mapping::create (for
\* mapping_create) of a Mapping named "shares" with the same payer makes
\* of the last call's inputs, run from the same ledger.
MappingCounterpart ==
    LET ctx == StartAt(prev, last.ptr)
    IN  IF last.op = "mapping_set"
        THEN MappingSet(ctx, "shares", StorePayer, last.key, last.value,
                        StoreTarget)
        ELSE MappingCreate(ctx, "shares", StorePayer, last.key, last.value,
                           StoreTarget)

\* C29: every Share::mapping_set and Share::mapping_create, made on an
\* account whose data the program loader has placed, has the outcome and
\* the resulting ledger of Mapping::set and Mapping::create on the same
\* ledger, key, value and account.
C29_DuplicatesAgree ==
    (last.op \in {"mapping_set", "mapping_create"} /\ LoaderPlaced) =>
        /\ last.result = MappingCounterpart.err
        /\ ledger = Commit(prev, MappingCounterpart)

----------------------------------------------------------------------------
(* C27: the alignment check and the type viewed *)

\* The last store call got as far as its alignment check: the address
\* matched, and the account was owned and of the value's size or has just
\* been allocated.
ReachedAlignmentCheck ==
    /\ StoreCalled({"create", "update", "set"})
    /\ \/ /\ last.op # "create"
          /\ prev[StoreTarget].owner = ID
          /\ prev[StoreTarget].space = last.value.len
       \/ \E i \in DOMAIN last.events : last.events[i].kind = "CreateAccount"

\* The last store call wrote into the account.
Wrote == \E i \in DOMAIN last.events : last.events[i].kind = "Write"

\* C27: a store call that gets past its alignment check and writes the
\* value does so at a data address that is a multiple of the alignment of
\* the value's type, and a call whose data address is not such a multiple
\* ends with InvalidAccountData and writes nothing.
C27_AlignedForT ==
    ReachedAlignmentCheck =>
        /\ Wrote => last.ptr % last.value.align = 0
        /\ last.ptr % last.value.align # 0
              => /\ last.result = "InvalidAccountData"
                 /\ ~Wrote
                 /\ ledger = prev

----------------------------------------------------------------------------
(* C25: ownership of a record account *)

\* The instructions and the record-store operations together: Make, Take,
\* create, update and set in any order on one ledger.
NextRecords ==
    Make \/ Take \/ StoreCreate \/ StoreUpdate \/ StoreSet \/ Return

SpecRecords == Init /\ [][NextRecords]_vars

\* The last operation was a successful update or set of account a, directly
\* or as the upsert of a Take, on the address derived from the operation's
\* key and its value's bump.
UpsertedBy(a) ==
    /\ last.result = "Ok"
    /\ \/ /\ last.op \in {"update", "set"}
          /\ StoreTarget = a
          /\ Derive("shares", last.key, last.value.bump) = a
       \/ /\ last.op = "Take"
          /\ Len(last.accounts) >= 5
          /\ Len(last.data) >= 1
          /\ last.accounts[4] = a
          /\ Derive("shares",
                    TakeShareKey(last.accounts[1], last.accounts[2]),
                    last.data[1]) = a

\* C25: across any Make, Take, create, update or set, successful or failed,
\* an account owned by the program stays owned by it with the same storage
\* length, and its data changes only through a successful update or set
\* made on that account at its derived address.
C25_OwnershipMonotonic ==
    \A a \in Addresses :
        prev[a].owner = ID =>
            /\ ledger[a].owner = ID
            /\ ledger[a].space = prev[a].space
            /\ ledger[a].data # prev[a].data => UpsertedBy(a)

\* An update or set has replaced the data of an account the program already
\* owned; owner and length are as before.
C25_Witness ==
    \E a \in Addresses :
        /\ prev[a].owner = ID
        /\ ledger[a].data # prev[a].data
        /\ ledger[a].owner = ID
        /\ ledger[a].space = prev[a].space
        /\ last.op \in {"update", "set"}
        /\ UpsertedBy(a)

====
